---------------------------- MODULE Spec2Model ----------------------------
(***************************************************************************)
(* A model of the Option / Result containers of bsutils                    *)
(* (src/src/bsutils/option.py, src/src/bsutils/result.py).                 *)
(*                                                                         *)
(* Python objects are records carrying their class in the field "cls" and  *)
(* their attributes under the attribute names of the source (optb, res,    *)
(* value, error).  A method is an operator from the receiver (and the      *)
(* arguments) to an outcome record                                         *)
(*     [self  |-> the receiver after the call,                             *)
(*      ret   |-> the returned object (SelfRef when the code returns self),*)
(*      exc   |-> the exception that left the call, "none" if none,        *)
(*      calls |-> how many times the callable argument was invoked]        *)
(* and one action per method applies it to the container of the state.     *)
(***************************************************************************)
EXTENDS Integers, Sequences, FiniteSets, TLC

\* Payload integers are 1..MaxVal.
MaxVal == 2

VARIABLES
    opt,     \* the Option object the Option methods are called on
    res,     \* the Result object the Result methods are called on
    op,      \* the method called last ("init" after construction)
    prev,    \* the method called before that one
    arg,     \* its argument: an object or the name of a callable
    old,     \* the receiver as it was right before that call
    ret,     \* what the call returned
    exc,     \* the exception the call raised, "none" if it returned
    calls,   \* number of invocations of the callable argument in that call
    after,   \* the argument object as it is after that call
    msg,     \* the message of the exception the call raised, "" if none
    ALL_SET, \* random.py: the module-level set ALL_SET
    seeded,  \* the libraries the last set_seed call seeded
    main,          \* io.py: where the thread using the OutputCapturer is
    catch,         \* the streams with catch_stdout / catch_stderr set
    stop_threads,  \* OutputCapturer.stop_threads
    fds,           \* per stream, the open descriptors of its pipe: "r" is
                   \* stdout_r, "w" is stdout_w, "std" is sys.stdout.fileno()
    pipe,          \* per stream, the bytes written to the pipe and not yet read
    rd,            \* per stream, where its _fd_reader thread is
    data,          \* per stream, the local variable data of its _fd_reader
    fd_buf,        \* per stream, the text held by fd_stdout / fd_stderr
    written        \* per stream, every byte written to its descriptor so far

capvars == <<main, catch, stop_threads, fds, pipe, rd, data, fd_buf, written>>

vars ==
    <<opt, res, op, prev, arg, old, ret, exc, calls, after, msg, ALL_SET, seeded, capvars>>

Streams == {"stdout", "stderr"}

\* OutputCapturer(catch_stdout, catch_stderr): the object after __init__
OutputCapturer___init__(catch_stdout, catch_stderr) ==
    /\ main = "init"
    /\ catch = (IF catch_stdout THEN {"stdout"} ELSE {}) \cup
               (IF catch_stderr THEN {"stderr"} ELSE {})
    /\ stop_threads = FALSE
    /\ fds = [s \in Streams |-> {}]
    /\ pipe = [s \in Streams |-> <<>>]
    /\ rd = [s \in Streams |-> "none"]
    /\ data = [s \in Streams |-> <<>>]
    /\ fd_buf = [s \in Streams |-> <<>>]
    /\ written = [s \in Streams |-> <<>>]

---------------------------------------------------------------------------
\* Python values

PyNone == [cls |-> "NoneType"]

PyInt(n) == [cls |-> "int", n |-> n]

PyList(s) == [cls |-> "list", items |-> s]

Ints == {PyInt(n) : n \in 1..MaxVal}

\* The returned object is the receiver itself (`return self`).
SelfRef == [cls |-> "ref", to |-> "self"]

isinstance(x, c) == x.cls = c

\* option.py: class Option._Some
Option_Some(value) == [cls |-> "_Some", value |-> value]

\* option.py: Option.__init__
Option(value) == [cls |-> "Option", optb |-> value]

Option_create_some(value) == Option(Option_Some(value))

Option_create_none == Option(PyNone)

\* result.py: class Result._Ok, Result._Err
Result_Ok(value) == [cls |-> "_Ok", value |-> value]

Result_Err(error) == [cls |-> "_Err", error |-> error]

\* result.py: Result.__init__
Result(v) == [cls |-> "Result", res |-> v]

Result_create_ok(value) == Result(Result_Ok(value))

Result_create_err(error) == Result(Result_Err(error))

---------------------------------------------------------------------------
\* Outcome of a call

Return(self, v, n) == [self |-> self, ret |-> v, exc |-> "none", calls |-> n]

Raise(self, e, n) == [self |-> self, ret |-> PyNone, exc |-> e, calls |-> n]

\* raise e(m)
RaiseMsg(self, e, m, n) ==
    [self |-> self, ret |-> PyNone, exc |-> e, calls |-> n, msg |-> m]

\* the outcome r of a call that was handed the object o, which the call
\* leaves as o1
WithOther(r, o1) ==
    [self |-> r.self, ret |-> r.ret, exc |-> r.exc, calls |-> r.calls, other |-> o1]

---------------------------------------------------------------------------
\* The callables handed to the combinators, by name.

Predicates == {"is_one", "yes", "no"}

Mappers == {"succ", "to_null"}

Thunks == {"mk_one", "mk_null"}

OptionFns == {"some_succ", "to_none"}

OptionThunks == {"dflt_some", "dflt_none"}

ResultFns == {"ok_succ", "to_err"}

Succ(v) == IF isinstance(v, "int") THEN PyInt((v.n % MaxVal) + 1) ELSE v

\* f(v) for a one-argument callable f
Call(f, v) ==
    CASE f = "is_one"    -> (v = PyInt(1))
      [] f = "yes"       -> TRUE
      [] f = "no"        -> FALSE
      [] f = "succ"      -> Succ(v)
      [] f = "to_null"   -> PyNone
      [] f = "some_succ" -> Option_create_some(Succ(v))
      [] f = "to_none"   -> Option_create_none
      [] f = "ok_succ"   -> Result_create_ok(Succ(v))
      [] f = "to_err"    -> Result_create_err(v)

\* f() for a zero-argument callable f
Call0(f) ==
    CASE f = "mk_one"    -> PyInt(1)
      [] f = "mk_null"   -> PyNone
      [] f = "dflt_some" -> Option_create_some(PyInt(1))
      [] f = "dflt_none" -> Option_create_none

---------------------------------------------------------------------------
\* Option methods (option.py)

Option_map(self, f) ==
    IF isinstance(self.optb, "_Some")
    THEN Return(self, Option_create_some(Call(f, self.optb.value)), 1)
    ELSE Return(self, Option(PyNone), 0)

Option_and_then(self, f) ==
    IF isinstance(self.optb, "_Some")
    THEN Return(self, Call(f, self.optb.value), 1)
    ELSE Return(self, Option(PyNone), 0)

\* or_else() that evaluates f() before testing the container
Option_or_else_eager(self, f) ==
    LET other == Call0(f)
    IN  IF isinstance(self.optb, "_Some")
        THEN Return(self, SelfRef, 1)
        ELSE Return(self, other, 1)

Option_or_else(self, f) ==
    IF isinstance(self.optb, "_Some")
    THEN Return(self, SelfRef, 0)
    ELSE Return(self, Call0(f), 1)

\* insert() that stores the value without wrapping it in _Some
Option_insert_unwrapped(self, value) ==
    LET self1 == [self EXCEPT !.optb = value]
    IN  Return(self1, SelfRef, 0)

\* insert() that keeps an existing value, as get_or_insert does
Option_insert_if_none(self, value) ==
    LET self1 == IF self.optb = PyNone
                 THEN [self EXCEPT !.optb = Option_Some(value)]
                 ELSE self
    IN  Return(self1, SelfRef, 0)

Option_insert(self, value) ==
    LET self1 == [self EXCEPT !.optb = Option_Some(value)]
    IN  Return(self1, SelfRef, 0)

Option_get_or_insert(self, value) ==
    LET self1 == IF self.optb = PyNone
                 THEN [self EXCEPT !.optb = Option_Some(value)]
                 ELSE self
    IN  Return(self1, self1.optb.value, 0)

\* get_or_insert_with() that evaluates f() before testing the container
Option_get_or_insert_with_eager(self, f) ==
    LET value == Call0(f)
        self1 == IF self.optb = PyNone
                 THEN [self EXCEPT !.optb = Option_Some(value)]
                 ELSE self
    IN  Return(self1, self1.optb.value, 1)

Option_get_or_insert_with(self, f) ==
    LET self1 == IF self.optb = PyNone
                 THEN [self EXCEPT !.optb = Option_Some(Call0(f))]
                 ELSE self
    IN  Return(self1, self1.optb.value, IF self.optb = PyNone THEN 1 ELSE 0)

\* take() that forgets `self.optb = None`
Option_take_keeps(self) ==
    IF isinstance(self.optb, "_Some")
    THEN Return(self, Option_create_some(self.optb.value), 0)
    ELSE Return(self, Option(PyNone), 0)

Option_take(self) ==
    IF isinstance(self.optb, "_Some")
    THEN LET value == self.optb.value
             self1 == [self EXCEPT !.optb = PyNone]
         IN  Return(self1, Option_create_some(value), 0)
    ELSE Return(self, Option(PyNone), 0)

\* take_if() that tests `f is not None` instead of calling f
Option_take_if_unconditional(self, f) ==
    IF isinstance(self.optb, "_Some")
    THEN LET value == self.optb.value
             self1 == [self EXCEPT !.optb = PyNone]
         IN  Return(self1, Option_create_some(value), 0)
    ELSE Return(self, Option(PyNone), 0)

Option_take_if(self, f) ==
    IF isinstance(self.optb, "_Some") /\ Call(f, self.optb.value)
    THEN LET value == self.optb.value
             self1 == [self EXCEPT !.optb = PyNone]
         IN  Return(self1, Option_create_some(value), 1)
    ELSE Return(self, Option(PyNone),
                IF isinstance(self.optb, "_Some") THEN 1 ELSE 0)

\* replace() that reads the contents after installing the new value
Option_replace_reads_late(self, value) ==
    LET self1 == [self EXCEPT !.optb = Option_Some(value)]
    IN  IF isinstance(self.optb, "_Some")
        THEN Return(self1, Option_create_some(self1.optb.value), 0)
        ELSE Return(self1, Option(PyNone), 0)

Option_replace(self, value) ==
    IF isinstance(self.optb, "_Some")
    THEN LET old_value == self.optb.value
             self1 == [self EXCEPT !.optb = Option_Some(value)]
         IN  Return(self1, Option_create_some(old_value), 0)
    ELSE LET self1 == [self EXCEPT !.optb = Option_Some(value)]
         IN  Return(self1, Option(PyNone), 0)

Option_transpose(self) ==
    IF isinstance(self.optb, "_Some")
    THEN Return(self, Result_create_ok(Option_create_some(self.optb.value)), 0)
    ELSE Return(self, Result_create_err(PyNone), 0)

\* The generator function Option.__iter__, resumed at position pc:
\* "start" is the first next(), "yielded" the resumption after the yield.
Option___iter__(self, pc) ==
    IF pc = "start"
    THEN IF isinstance(self.optb, "_Some")
         THEN [out |-> "yield", value |-> self.optb.value, exc |-> "none"]
         ELSE [out |-> "raise", value |-> PyNone, exc |-> "StopIteration"]
    ELSE [out |-> "return", value |-> PyNone, exc |-> "none"]

---------------------------------------------------------------------------
\* Result methods (result.py)

Result_and_(self, other) ==
    IF isinstance(self.res, "_Ok")
    THEN Return(self, other, 0)
    ELSE Return(self, self.res.error, 0)

Result_and_then(self, f) ==
    IF isinstance(self.res, "_Ok")
    THEN Return(self, Call(f, self.res.value), 1)
    ELSE Return(self, SelfRef, 0)

Result_or_(self, other) ==
    IF isinstance(self.res, "_Ok")
    THEN Return(self, self.res.value, 0)
    ELSE Return(self, other, 0)

Result_or_else(self, f) ==
    IF isinstance(self.res, "_Ok")
    THEN Return(self, SelfRef, 0)
    ELSE Return(self, Call(f, self.res.error), 1)

Result_transpose(self) ==
    IF isinstance(self.res, "_Ok")
    THEN IF ~isinstance(self.res.value, "Option")
         THEN Raise(self, "AssertionError", 0)
         ELSE IF isinstance(self.res.value.optb, "_Some")
              THEN Return(self,
                     Option_create_some(Result_create_ok(self.res.value.optb.value)), 0)
              ELSE Return(self, Option(PyNone), 0)
    ELSE Return(self, Option_create_some(Result_create_err(self.res.error)), 0)

\* The generator function Result.__iter__, resumed at position pc.
Result___iter__(self, pc) ==
    IF pc = "start"
    THEN IF isinstance(self.res, "_Ok")
         THEN [out |-> "yield", value |-> self.res.value, exc |-> "none"]
         ELSE [out |-> "raise", value |-> PyNone, exc |-> "StopIteration"]
    ELSE [out |-> "return", value |-> PyNone, exc |-> "none"]

---------------------------------------------------------------------------
\* Iterating a container: `for x in c` / list(c) over the generator that
\* c.__iter__() creates.

\* One next() on the generator.  Both modules start with
\* `from __future__ import annotations`, so the interpreter is 3.7 or later,
\* where a StopIteration raised inside a generator body leaves next() as a
\* RuntimeError (PEP 479).
generator_next(self, pc) ==
    LET step == IF isinstance(self, "Option")
                THEN Option___iter__(self, pc)
                ELSE Result___iter__(self, pc)
    IN  IF step.out = "raise" /\ step.exc = "StopIteration"
        THEN [step EXCEPT !.exc = "RuntimeError"]
        ELSE step

RECURSIVE iterate(_, _, _)
\* The elements collected from position pc on, after those in acc.
iterate(self, pc, acc) ==
    LET step == generator_next(self, pc)
    IN  CASE step.out = "yield"  -> iterate(self, "yielded", Append(acc, step.value))
          [] step.out = "return" -> Return(self, PyList(acc), 0)
          [] step.out = "raise"  -> Raise(self, step.exc, 0)

---------------------------------------------------------------------------
\* Further Python values

PyBool(b) == [cls |-> "bool", b |-> b]

PyStr(s) == [cls |-> "str", s |-> s]

PyTuple(s) == [cls |-> "tuple", items |-> s]

\* An exception object of class c
PyExc(c) == [cls |-> c]

RECURSIVE Str(_)
\* str(v), as the f-strings of __str__ and of the UnwrapError messages
\* format it: Option.__str__ (option.py:236-240) and Result.__str__
\* (result.py:197-202) for the containers.
Str(v) ==
    CASE v.cls = "int"      -> ToString(v.n)
      [] v.cls = "NoneType" -> "None"
      [] v.cls = "bool"     -> IF v.b THEN "True" ELSE "False"
      [] v.cls = "str"      -> v.s
      [] v.cls = "tuple"    -> "(" \o Str(v.items[1]) \o ", " \o Str(v.items[2]) \o ")"
      [] v.cls = "Option"   -> IF isinstance(v.optb, "_Some")
                               THEN "Some(" \o Str(v.optb.value) \o ")"
                               ELSE "None"
      [] v.cls = "Result"   -> IF isinstance(v.res, "_Ok")
                               THEN "Ok(" \o Str(v.res.value) \o ")"
                               ELSE "Err(" \o Str(v.res.error) \o ")"
      [] OTHER              -> "<" \o v.cls \o ">"

RECURSIVE Hash(_)
\* hash(v): an int hashes to itself, a container through its __hash__
\* (option.py:248-253, result.py:215-221), a tuple to a combination of the
\* hashes of its items.
Hash(v) ==
    CASE v.cls = "int"      -> v.n
      [] v.cls = "NoneType" -> 7    \* a fixed number the interpreter chooses
      [] v.cls = "tuple"    -> 31 * Hash(v.items[1]) + Hash(v.items[2])
      [] v.cls = "Option"   -> IF isinstance(v.optb, "_Some") THEN Hash(v.optb.value) ELSE 0
      [] v.cls = "Result"   -> IF isinstance(v.res, "_Ok")
                               THEN Hash(v.res.value)
                               ELSE Hash(v.res.error)

\* exception.py: class UnwrapError
UnwrapError == "UnwrapError"

\* f(a, b) for a two-argument callable f
Call2(f, a, b) ==
    CASE f = "pair"  -> PyTuple(<<a, b>>)
      [] f = "first" -> a

---------------------------------------------------------------------------
\* Option methods (option.py), continued

Option_is_some(self) ==
    Return(self, PyBool(isinstance(self.optb, "_Some")), 0)

Option_is_some_and(self, f) ==
    IF isinstance(self.optb, "_Some")
    THEN Return(self, PyBool(Call(f, self.optb.value)), 1)
    ELSE Return(self, PyBool(FALSE), 0)

Option_is_none(self) ==
    Return(self, PyBool(self.optb = PyNone), 0)

Option_is_none_or(self, f) ==
    IF self.optb = PyNone
    THEN Return(self, PyBool(TRUE), 0)
    ELSE Return(self, PyBool(Call(f, self.optb.value)), 1)

Option_expect(self, m) ==
    IF isinstance(self.optb, "_Some")
    THEN Return(self, self.optb.value, 0)
    ELSE RaiseMsg(self, UnwrapError, m, 0)

\* unwrap() that moves the payload out, leaving the container None
Option_unwrap_moves_out(self) ==
    IF isinstance(self.optb, "_Some")
    THEN Return([self EXCEPT !.optb = PyNone], self.optb.value, 0)
    ELSE RaiseMsg(self, UnwrapError, "called Option.unwrap() on a None value", 0)

\* (the message is written here without its backquotes)
Option_unwrap(self) ==
    IF isinstance(self.optb, "_Some")
    THEN Return(self, self.optb.value, 0)
    ELSE RaiseMsg(self, UnwrapError, "called Option.unwrap() on a None value", 0)

Option_unwrap_or(self, default) ==
    IF isinstance(self.optb, "_Some")
    THEN Return(self, self.optb.value, 0)
    ELSE Return(self, default, 0)

Option_unwrap_or_else(self, f) ==
    IF isinstance(self.optb, "_Some")
    THEN Return(self, self.optb.value, 0)
    ELSE Return(self, Call0(f), 1)

Option_map_or(self, default, f) ==
    IF isinstance(self.optb, "_Some")
    THEN Return(self, Call(f, self.optb.value), 1)
    ELSE Return(self, default, 0)

Option_map_or_else(self, default, f) ==
    IF isinstance(self.optb, "_Some")
    THEN Return(self, Call(f, self.optb.value), 1)
    ELSE Return(self, Call0(default), 1)

Option_inspect(self, f) ==
    IF isinstance(self.optb, "_Some")
    THEN Return(self, SelfRef, 1)
    ELSE Return(self, SelfRef, 0)

Option_ok_or(self, error) ==
    IF isinstance(self.optb, "_Some")
    THEN Return(self, Result_create_ok(self.optb.value), 0)
    ELSE Return(self, Result_create_err(error), 0)

Option_ok_or_else(self, f) ==
    IF isinstance(self.optb, "_Some")
    THEN Return(self, Result_create_ok(self.optb.value), 0)
    ELSE Return(self, Result_create_err(Call0(f)), 1)

Option_and_(self, optb) ==
    IF isinstance(self.optb, "_Some")
    THEN WithOther(Return(self, optb, 0), optb)
    ELSE WithOther(Return(self, Option(PyNone), 0), optb)

Option_filter(self, f) ==
    IF isinstance(self.optb, "_Some") /\ Call(f, self.optb.value)
    THEN Return(self, SelfRef, 1)
    ELSE Return(self, Option(PyNone),
                IF isinstance(self.optb, "_Some") THEN 1 ELSE 0)

Option_or_(self, optb) ==
    IF isinstance(self.optb, "_Some")
    THEN WithOther(Return(self, SelfRef, 0), optb)
    ELSE WithOther(Return(self, optb, 0), optb)

Option_xor(self, optp) ==
    IF isinstance(self.optb, "_Some") /\ isinstance(optp.optb, "_Some")
    THEN WithOther(Return(self, Option(PyNone), 0), optp)
    ELSE IF isinstance(self.optb, "_Some")
         THEN WithOther(Return(self, SelfRef, 0), optp)
         ELSE WithOther(Return(self, optp, 0), optp)

Option_zip(self, o) ==
    IF isinstance(self.optb, "_Some") /\ isinstance(o.optb, "_Some")
    THEN WithOther(Return(self,
             Option_create_some(PyTuple(<<self.optb.value, o.optb.value>>)), 0), o)
    ELSE WithOther(Return(self, Option(PyNone), 0), o)

Option_zip_with(self, o, f) ==
    IF isinstance(self.optb, "_Some") /\ isinstance(o.optb, "_Some")
    THEN WithOther(Return(self,
             Option_create_some(Call2(f, self.optb.value, o.optb.value)), 1), o)
    ELSE WithOther(Return(self, Option(PyNone), 0), o)

Option_unzip(self) ==
    IF isinstance(self.optb, "_Some")
    THEN IF ~(isinstance(self.optb.value, "tuple") /\ Len(self.optb.value.items) = 2)
         THEN RaiseMsg(self, "AssertionError",
                       "Option.unzip() requires a tuple of length 2", 0)
         ELSE Return(self, PyTuple(<<Option_create_some(self.optb.value.items[1]),
                                    Option_create_some(self.optb.value.items[2])>>), 0)
    ELSE Return(self, PyTuple(<<Option(PyNone), Option(PyNone)>>), 0)

\* copy.copy(v) / copy.deepcopy(v): an object equal to v
copy_copy(v) == v

copy_deepcopy(v) == v

Option_copy(self) ==
    IF isinstance(self.optb, "_Some")
    THEN Return(self, Option_create_some(copy_copy(self.optb.value)), 0)
    ELSE Return(self, Option(PyNone), 0)

Option_clone(self) ==
    IF isinstance(self.optb, "_Some")
    THEN Return(self, Option_create_some(copy_deepcopy(self.optb.value)), 0)
    ELSE Return(self, Option(PyNone), 0)

Option_flatten(self) ==
    IF isinstance(self.optb, "_Some")
    THEN IF ~isinstance(self.optb.value, "Option")
         THEN Raise(self, "AssertionError", 0)
         ELSE Return(self, self.optb.value, 0)
    ELSE Return(self, Option(PyNone), 0)

Option___str__(self) ==
    IF isinstance(self.optb, "_Some")
    THEN Return(self, PyStr("Some(" \o Str(self.optb.value) \o ")"), 0)
    ELSE Return(self, PyStr("None"), 0)

\* id is id(self); the _Some object lives at some other address, id + 1 here
Option___repr__(self, id) ==
    IF isinstance(self.optb, "_Some")
    THEN Return(self, PyStr("<Option " \o ToString(id) \o "\n  >" \o "    Some "
                            \o ToString(id + 1) \o "\n" \o "        "
                            \o Str(self.optb.value) \o "\n>"), 0)
    ELSE Return(self, PyStr("<Option " \o ToString(id) \o "\n    None\n>"), 0)

Option___hash__(self) ==
    IF isinstance(self.optb, "_Some")
    THEN Return(self, PyInt(Hash(self.optb.value)), 0)
    ELSE Return(self, PyInt(0), 0)

---------------------------------------------------------------------------
\* Result methods (result.py), continued

Result_is_ok(self) == Return(self, PyBool(isinstance(self.res, "_Ok")), 0)

Result_is_ok_and(self, f) ==
    IF isinstance(self.res, "_Ok")
    THEN Return(self, PyBool(Call(f, self.res.value)), 1)
    ELSE Return(self, PyBool(FALSE), 0)

Result_is_err(self) == Return(self, PyBool(isinstance(self.res, "_Err")), 0)

Result_is_err_and(self, f) ==
    IF isinstance(self.res, "_Err")
    THEN Return(self, PyBool(Call(f, self.res.error)), 1)
    ELSE Return(self, PyBool(FALSE), 0)

Result_ok(self) ==
    IF isinstance(self.res, "_Ok")
    THEN Return(self, Option_create_some(self.res.value), 0)
    ELSE Return(self, Option(PyNone), 0)

\* err() written as a copy of ok()
Result_err_like_ok(self) ==
    IF isinstance(self.res, "_Ok")
    THEN Return(self, Option_create_some(self.res.value), 0)
    ELSE Return(self, Option(PyNone), 0)

Result_err(self) ==
    IF isinstance(self.res, "_Ok")
    THEN Return(self, Option(PyNone), 0)
    ELSE Return(self, Option_create_some(self.res.error), 0)

Result_map(self, f) ==
    IF isinstance(self.res, "_Ok")
    THEN Return(self, Result_create_ok(Call(f, self.res.value)), 1)
    ELSE Return(self, SelfRef, 0)

Result_map_or(self, default, f) ==
    IF isinstance(self.res, "_Ok")
    THEN Return(self, Call(f, self.res.value), 1)
    ELSE Return(self, default, 0)

Result_map_or_else(self, default, f) ==
    IF isinstance(self.res, "_Ok")
    THEN Return(self, Call(f, self.res.value), 1)
    ELSE Return(self, Call(default, self.res.error), 1)

Result_map_err(self, f) ==
    IF isinstance(self.res, "_Ok")
    THEN Return(self, SelfRef, 0)
    ELSE Return(self, Result_create_err(Call(f, self.res.error)), 1)

Result_inspect(self, f) ==
    IF isinstance(self.res, "_Ok")
    THEN Return(self, SelfRef, 1)
    ELSE Return(self, SelfRef, 0)

Result_inspect_err(self, f) ==
    IF isinstance(self.res, "_Err")
    THEN Return(self, SelfRef, 1)
    ELSE Return(self, SelfRef, 0)

\* expect() that raises UnwrapError(msg) without the error
Result_expect_bare_msg(self, m) ==
    IF isinstance(self.res, "_Ok")
    THEN Return(self, self.res.value, 0)
    ELSE RaiseMsg(self, UnwrapError, m, 0)

Result_expect(self, m) ==
    IF isinstance(self.res, "_Ok")
    THEN Return(self, self.res.value, 0)
    ELSE RaiseMsg(self, UnwrapError, m \o ": " \o Str(self.res.error), 0)

\* (the fixed messages are written here without their backquotes)
Result_unwrap(self) ==
    IF isinstance(self.res, "_Ok")
    THEN Return(self, self.res.value, 0)
    ELSE RaiseMsg(self, UnwrapError,
                  "called Result.unwrap() on a Err value: " \o Str(self.res.error), 0)

Result_unwrap_or(self, default) ==
    IF isinstance(self.res, "_Ok")
    THEN Return(self, self.res.value, 0)
    ELSE Return(self, default, 0)

Result_unwrap_or_default(self, default) ==
    IF isinstance(self.res, "_Ok")
    THEN Return(self, self.res.value, 0)
    ELSE Return(self, Call0(default), 1)

Result_unwrap_or_else(self, f) ==
    IF isinstance(self.res, "_Ok")
    THEN Return(self, self.res.value, 0)
    ELSE Return(self, Call(f, self.res.error), 1)

Result_into_ok(self) == Raise(self, "NotImplementedError", 0)

Result_expect_err(self, m) ==
    IF isinstance(self.res, "_Ok")
    THEN RaiseMsg(self, UnwrapError, m \o ": " \o Str(self.res.value), 0)
    ELSE Return(self, self.res.error, 0)

Result_unwrap_err(self) ==
    IF isinstance(self.res, "_Ok")
    THEN RaiseMsg(self, UnwrapError,
                  "called Result.unwrap_err() on a Ok value: " \o Str(self.res.value), 0)
    ELSE Return(self, self.res.error, 0)

Result_into_err(self) == Raise(self, "NotImplementedError", 0)

Result_copy(self) ==
    IF isinstance(self.res, "_Ok")
    THEN Return(self, Result_create_ok(copy_copy(self.res.value)), 0)
    ELSE Return(self, Result_create_err(copy_copy(self.res.error)), 0)

Result_clone(self) ==
    IF isinstance(self.res, "_Ok")
    THEN Return(self, Result_create_ok(copy_deepcopy(self.res.value)), 0)
    ELSE Return(self, Result_create_err(copy_deepcopy(self.res.error)), 0)

Result_flatten(self) ==
    IF isinstance(self.res, "_Ok")
    THEN IF ~isinstance(self.res.value, "Result")
         THEN Raise(self, "AssertionError", 0)
         ELSE Return(self, self.res.value, 0)
    ELSE Return(self, SelfRef, 0)

Result___str__(self) ==
    IF isinstance(self.res, "_Ok")
    THEN Return(self, PyStr("Ok(" \o Str(self.res.value) \o ")"), 0)
    ELSE Return(self, PyStr("Err(" \o Str(self.res.error) \o ")"), 0)

\* id is id(self), printed in hexadecimal by the code and in decimal here;
\* the _Ok / _Err object lives at some other address, id + 1 here
Result___repr__(self, id) ==
    LET head == "<Result " \o ToString(id) \o "\n"
    IN  IF isinstance(self.res, "_Ok")
        THEN Return(self, PyStr(head \o "    Ok " \o ToString(id + 1) \o "\n"
                                \o "        " \o Str(self.res.value) \o "\n" \o ">"), 0)
        ELSE Return(self, PyStr(head \o "    Err " \o ToString(id + 1) \o "\n"
                                \o "        " \o Str(self.res.error) \o "\n" \o ">"), 0)

Result___hash__(self) ==
    IF isinstance(self.res, "_Ok")
    THEN Return(self, PyInt(Hash(self.res.value)), 0)
    ELSE Return(self, PyInt(Hash(self.res.error)), 0)

\* the property Result.value
Result_value(self) == Result_unwrap(self)

\* the property Result.error
Result_error(self) == Result_unwrap_err(self)

---------------------------------------------------------------------------
\* Adapter functions (result.py: resultify, option.py: optionalify)

\* What one call of the wrapped function does: it returns a value or it
\* raises an exception of some class.
ExceptionClasses == {"ValueError", "ZeroDivisionError"}

\* Classes derived from BaseException but not from Exception
BaseExceptionClasses == {"KeyboardInterrupt", "SystemExit"}

FnOutcomes ==
    {[kind |-> "return", value |-> v] : v \in Ints \cup {PyNone}}
        \cup {[kind |-> "raise", exc |-> c] :
                 c \in ExceptionClasses \cup BaseExceptionClasses}

\* `except Exception` catches an exception of class c
CaughtByExceptException(c) == c \in ExceptionClasses

\* resultify whose except clause re-raises
resultify_reraises(func) ==
    IF func.kind = "return"
    THEN Return(PyNone, Result_create_ok(func.value), 1)
    ELSE Raise(PyNone, func.exc, 1)

\* resultify(func)(): the wrapper of result.py:246-252
resultify(func) ==
    IF func.kind = "return"
    THEN Return(PyNone, Result_create_ok(func.value), 1)
    ELSE IF CaughtByExceptException(func.exc)
         THEN Return(PyNone, Result_create_err(PyExc(func.exc)), 1)
         ELSE Raise(PyNone, func.exc, 1)

\* optionalify without the `result is None` test
optionalify_wraps_none(func, catch_exceptions) ==
    IF func.kind = "raise"
    THEN IF catch_exceptions /\ CaughtByExceptException(func.exc)
         THEN Return(PyNone, Option_create_none, 1)
         ELSE Raise(PyNone, func.exc, 1)
    ELSE Return(PyNone, Option_create_some(func.value), 1)

\* optionalify(func, catch_exceptions)(): the wrapper of option.py:264-276
optionalify(func, catch_exceptions) ==
    IF func.kind = "raise"
    THEN IF catch_exceptions /\ CaughtByExceptException(func.exc)
         THEN Return(PyNone, Option_create_none, 1)
         ELSE Raise(PyNone, func.exc, 1)
    ELSE IF func.value = PyNone
         THEN Return(PyNone, Option_create_none, 1)
         ELSE Return(PyNone, Option_create_some(func.value), 1)

---------------------------------------------------------------------------
\* State machine

OptionPayloads ==
    Ints \cup {PyNone}
         \cup {Result_create_ok(v) : v \in Ints}
         \cup {Result_create_err(v) : v \in Ints}

ResultOkPayloads ==
    Ints \cup {Option_create_none} \cup {Option_create_some(v) : v \in Ints}

ResultErrPayloads == Ints

\* values passed to insert / replace / get_or_insert
ArgValues == Ints \cup {PyNone}

Options == {Option_create_none} \cup {Option_create_some(v) : v \in OptionPayloads}

Results ==
    {Result_create_ok(v) : v \in ResultOkPayloads}
        \cup {Result_create_err(e) : e \in ResultErrPayloads}

Init ==
    /\ opt \in Options
    /\ res \in Results
    /\ op = "init"
    /\ prev = "init"
    /\ arg = PyNone
    /\ old = PyNone
    /\ ret = PyNone
    /\ exc = "none"
    /\ calls = 0
    /\ after = PyNone
    /\ msg = ""
    /\ ALL_SET = {"random", "torch", "numpy"}
    /\ seeded = {}
    /\ OutputCapturer___init__(TRUE, TRUE)

\* opt.<name>(a) with outcome r
OptionCall(name, a, r) ==
    /\ op' = name
    /\ prev' = op
    /\ arg' = a
    /\ old' = opt
    /\ opt' = r.self
    /\ ret' = r.ret
    /\ exc' = r.exc
    /\ calls' = r.calls
    /\ after' = (IF "other" \in DOMAIN r THEN r.other ELSE a)
    /\ msg' = (IF "msg" \in DOMAIN r THEN r.msg ELSE "")
    /\ UNCHANGED <<res, ALL_SET, seeded, capvars>>

take == OptionCall("Option.take", PyNone, Option_take(opt))

take_if == \E f \in Predicates : OptionCall("Option.take_if", f, Option_take_if(opt, f))

replace == \E v \in ArgValues : OptionCall("Option.replace", v, Option_replace(opt, v))

insert == \E v \in ArgValues : OptionCall("Option.insert", v, Option_insert(opt, v))

get_or_insert ==
    \E v \in ArgValues : OptionCall("Option.get_or_insert", v, Option_get_or_insert(opt, v))

get_or_insert_with ==
    \E f \in Thunks :
        OptionCall("Option.get_or_insert_with", f, Option_get_or_insert_with(opt, f))

map == \E f \in Mappers : OptionCall("Option.map", f, Option_map(opt, f))

and_then == \E f \in OptionFns : OptionCall("Option.and_then", f, Option_and_then(opt, f))

or_else == \E f \in OptionThunks : OptionCall("Option.or_else", f, Option_or_else(opt, f))

transpose == OptionCall("Option.transpose", PyNone, Option_transpose(opt))

iter == OptionCall("Option.__iter__", PyNone, iterate(opt, "start", <<>>))

\* res.<name>(a) with outcome r
ResultCall(name, a, r) ==
    /\ op' = name
    /\ prev' = op
    /\ arg' = a
    /\ old' = res
    /\ res' = r.self
    /\ ret' = r.ret
    /\ exc' = r.exc
    /\ calls' = r.calls
    /\ after' = (IF "other" \in DOMAIN r THEN r.other ELSE a)
    /\ msg' = (IF "msg" \in DOMAIN r THEN r.msg ELSE "")
    /\ UNCHANGED <<opt, ALL_SET, seeded, capvars>>

result_and_ == \E o \in Results : ResultCall("Result.and_", o, Result_and_(res, o))

result_or_ == \E o \in Results : ResultCall("Result.or_", o, Result_or_(res, o))

result_and_then ==
    \E f \in ResultFns : ResultCall("Result.and_then", f, Result_and_then(res, f))

result_or_else ==
    \E f \in ResultFns : ResultCall("Result.or_else", f, Result_or_else(res, f))

result_transpose == ResultCall("Result.transpose", PyNone, Result_transpose(res))

result_iter == ResultCall("Result.__iter__", PyNone, iterate(res, "start", <<>>))

\* x.transpose().transpose(): the object the last transpose() returned is
\* transposed back; old keeps x.
transpose_back ==
    /\ op \in {"Option.transpose", "Result.transpose"}
    /\ exc = "none"
    /\ LET r == IF isinstance(ret, "Result")
                THEN Result_transpose(ret)
                ELSE Option_transpose(ret)
       IN  /\ ret' = r.ret
           /\ exc' = r.exc
           /\ calls' = r.calls
    /\ op' = IF op = "Option.transpose"
             THEN "Option.transpose.transpose"
             ELSE "Result.transpose.transpose"
    /\ prev' = op
    /\ UNCHANGED <<opt, res, arg, old, after, msg, ALL_SET, seeded, capvars>>

Next ==
    \/ take
    \/ take_if
    \/ replace
    \/ insert
    \/ get_or_insert
    \/ get_or_insert_with
    \/ map
    \/ and_then
    \/ or_else
    \/ transpose
    \/ iter
    \/ result_and_
    \/ result_or_
    \/ result_and_then
    \/ result_or_else
    \/ result_transpose
    \/ result_iter
    \/ transpose_back

Spec == Init /\ [][Next]_vars

---------------------------------------------------------------------------
\* The whole interface: every method of Option and of Result and the two
\* adapters, one action each.  prev is not tracked here.

Messages == {"boom"}

Inspectors == {"log"}

Combiners == {"pair", "first"}

\* addresses id() may return
Ids == {1, 2}

OptionArgs == {Option_create_none} \cup {Option_create_some(v) : v \in Ints}

ResultArgs == {Result_create_ok(v) : v \in Ints} \cup {Result_create_err(v) : v \in Ints}

OptionsAPI ==
    Options \cup {Option_create_some(PyTuple(<<PyInt(1), PyInt(MaxVal)>>)),
                  Option_create_some(Option_create_some(PyInt(1))),
                  Option_create_some(Option_create_none)}

ResultsAPI ==
    Results \cup {Result_create_ok(Result_create_ok(PyInt(1))),
                  Result_create_ok(Result_create_err(PyInt(1)))}

InitAPI ==
    /\ opt \in OptionsAPI
    /\ res \in ResultsAPI
    /\ op = "init"
    /\ prev = "init"
    /\ arg = PyNone
    /\ old = PyNone
    /\ ret = PyNone
    /\ exc = "none"
    /\ calls = 0
    /\ after = PyNone
    /\ msg = ""
    /\ ALL_SET = {"random", "torch", "numpy"}
    /\ seeded = {}
    /\ OutputCapturer___init__(TRUE, TRUE)

\* opt.<name>(a) with outcome r
OptionApply(name, a, r) ==
    /\ op' = name
    /\ arg' = a
    /\ old' = opt
    /\ opt' = r.self
    /\ ret' = r.ret
    /\ exc' = r.exc
    /\ calls' = r.calls
    /\ after' = (IF "other" \in DOMAIN r THEN r.other ELSE a)
    /\ msg' = (IF "msg" \in DOMAIN r THEN r.msg ELSE "")
    /\ UNCHANGED <<res, prev, ALL_SET, seeded, capvars>>

\* res.<name>(a) with outcome r
ResultApply(name, a, r) ==
    /\ op' = name
    /\ arg' = a
    /\ old' = res
    /\ res' = r.self
    /\ ret' = r.ret
    /\ exc' = r.exc
    /\ calls' = r.calls
    /\ after' = (IF "other" \in DOMAIN r THEN r.other ELSE a)
    /\ msg' = (IF "msg" \in DOMAIN r THEN r.msg ELSE "")
    /\ UNCHANGED <<opt, prev, ALL_SET, seeded, capvars>>

\* <name>(func)() with outcome r: no container is the receiver
AdapterApply(name, a, r) ==
    /\ op' = name
    /\ arg' = a
    /\ old' = PyNone
    /\ ret' = r.ret
    /\ exc' = r.exc
    /\ calls' = r.calls
    /\ after' = a
    /\ msg' = ""
    /\ UNCHANGED <<opt, res, prev, ALL_SET, seeded, capvars>>

call_Option_is_some ==
    OptionApply("Option.is_some", PyNone, Option_is_some(opt))

call_Option_is_some_and ==
    \E f \in Predicates :
        OptionApply("Option.is_some_and", f, Option_is_some_and(opt, f))

call_Option_is_none ==
    OptionApply("Option.is_none", PyNone, Option_is_none(opt))

call_Option_is_none_or ==
    \E f \in Predicates :
        OptionApply("Option.is_none_or", f, Option_is_none_or(opt, f))

call_Option_expect ==
    \E m \in Messages :
        OptionApply("Option.expect", PyStr(m), Option_expect(opt, m))

call_Option_unwrap ==
    OptionApply("Option.unwrap", PyNone, Option_unwrap(opt))

call_Option_unwrap_or ==
    \E v \in ArgValues :
        OptionApply("Option.unwrap_or", v, Option_unwrap_or(opt, v))

call_Option_unwrap_or_else ==
    \E f \in Thunks :
        OptionApply("Option.unwrap_or_else", f, Option_unwrap_or_else(opt, f))

call_Option_map ==
    \E f \in Mappers :
        OptionApply("Option.map", f, Option_map(opt, f))

call_Option_map_or ==
    \E v \in ArgValues, f \in Mappers :
        OptionApply("Option.map_or", <<v, f>>, Option_map_or(opt, v, f))

call_Option_map_or_else ==
    \E d \in Thunks, f \in Mappers :
        OptionApply("Option.map_or_else", <<d, f>>, Option_map_or_else(opt, d, f))

call_Option_inspect ==
    \E f \in Inspectors :
        OptionApply("Option.inspect", f, Option_inspect(opt, f))

call_Option_ok_or ==
    \E e \in ArgValues :
        OptionApply("Option.ok_or", e, Option_ok_or(opt, e))

call_Option_ok_or_else ==
    \E f \in Thunks :
        OptionApply("Option.ok_or_else", f, Option_ok_or_else(opt, f))

call_Option_and_ ==
    \E o \in OptionArgs :
        OptionApply("Option.and_", o, Option_and_(opt, o))

call_Option_and_then ==
    \E f \in OptionFns :
        OptionApply("Option.and_then", f, Option_and_then(opt, f))

call_Option_filter ==
    \E f \in Predicates :
        OptionApply("Option.filter", f, Option_filter(opt, f))

call_Option_or_ ==
    \E o \in OptionArgs :
        OptionApply("Option.or_", o, Option_or_(opt, o))

call_Option_or_else ==
    \E f \in OptionThunks :
        OptionApply("Option.or_else", f, Option_or_else(opt, f))

call_Option_xor ==
    \E o \in OptionArgs :
        OptionApply("Option.xor", o, Option_xor(opt, o))

call_Option_insert ==
    \E v \in ArgValues :
        OptionApply("Option.insert", v, Option_insert(opt, v))

call_Option_get_or_insert ==
    \E v \in ArgValues :
        OptionApply("Option.get_or_insert", v, Option_get_or_insert(opt, v))

call_Option_get_or_insert_with ==
    \E f \in Thunks :
        OptionApply("Option.get_or_insert_with", f, Option_get_or_insert_with(opt, f))

call_Option_take ==
    OptionApply("Option.take", PyNone, Option_take(opt))

call_Option_take_if ==
    \E f \in Predicates :
        OptionApply("Option.take_if", f, Option_take_if(opt, f))

call_Option_replace ==
    \E v \in ArgValues :
        OptionApply("Option.replace", v, Option_replace(opt, v))

call_Option_zip ==
    \E o \in OptionArgs :
        OptionApply("Option.zip", o, Option_zip(opt, o))

call_Option_zip_with ==
    \E o \in OptionArgs, f \in Combiners :
        OptionApply("Option.zip_with", <<o, f>>, Option_zip_with(opt, o, f))

call_Option_unzip ==
    OptionApply("Option.unzip", PyNone, Option_unzip(opt))

call_Option_copy ==
    OptionApply("Option.copy", PyNone, Option_copy(opt))

call_Option_clone ==
    OptionApply("Option.clone", PyNone, Option_clone(opt))

call_Option_transpose ==
    OptionApply("Option.transpose", PyNone, Option_transpose(opt))

call_Option_flatten ==
    OptionApply("Option.flatten", PyNone, Option_flatten(opt))

call_Option___iter__ ==
    OptionApply("Option.__iter__", PyNone, iterate(opt, "start", <<>>))

call_Option___str__ ==
    OptionApply("Option.__str__", PyNone, Option___str__(opt))

call_Option___repr__ ==
    \E id \in Ids :
        OptionApply("Option.__repr__", PyNone, Option___repr__(opt, id))

call_Option___hash__ ==
    OptionApply("Option.__hash__", PyNone, Option___hash__(opt))

call_Result_is_ok ==
    ResultApply("Result.is_ok", PyNone, Result_is_ok(res))

call_Result_is_ok_and ==
    \E f \in Predicates :
        ResultApply("Result.is_ok_and", f, Result_is_ok_and(res, f))

call_Result_is_err ==
    ResultApply("Result.is_err", PyNone, Result_is_err(res))

call_Result_is_err_and ==
    \E f \in Predicates :
        ResultApply("Result.is_err_and", f, Result_is_err_and(res, f))

call_Result_ok ==
    ResultApply("Result.ok", PyNone, Result_ok(res))

call_Result_err ==
    ResultApply("Result.err", PyNone, Result_err(res))

call_Result_map ==
    \E f \in Mappers :
        ResultApply("Result.map", f, Result_map(res, f))

call_Result_map_or ==
    \E v \in ArgValues, f \in Mappers :
        ResultApply("Result.map_or", <<v, f>>, Result_map_or(res, v, f))

call_Result_map_or_else ==
    \E d \in Mappers, f \in Mappers :
        ResultApply("Result.map_or_else", <<d, f>>, Result_map_or_else(res, d, f))

call_Result_map_err ==
    \E f \in Mappers :
        ResultApply("Result.map_err", f, Result_map_err(res, f))

call_Result_inspect ==
    \E f \in Inspectors :
        ResultApply("Result.inspect", f, Result_inspect(res, f))

call_Result_inspect_err ==
    \E f \in Inspectors :
        ResultApply("Result.inspect_err", f, Result_inspect_err(res, f))

call_Result_expect ==
    \E m \in Messages :
        ResultApply("Result.expect", PyStr(m), Result_expect(res, m))

call_Result_unwrap ==
    ResultApply("Result.unwrap", PyNone, Result_unwrap(res))

call_Result_unwrap_or ==
    \E v \in ArgValues :
        ResultApply("Result.unwrap_or", v, Result_unwrap_or(res, v))

call_Result_unwrap_or_default ==
    \E f \in Thunks :
        ResultApply("Result.unwrap_or_default", f, Result_unwrap_or_default(res, f))

call_Result_unwrap_or_else ==
    \E f \in Mappers :
        ResultApply("Result.unwrap_or_else", f, Result_unwrap_or_else(res, f))

call_Result_into_ok ==
    ResultApply("Result.into_ok", PyNone, Result_into_ok(res))

call_Result_expect_err ==
    \E m \in Messages :
        ResultApply("Result.expect_err", PyStr(m), Result_expect_err(res, m))

call_Result_unwrap_err ==
    ResultApply("Result.unwrap_err", PyNone, Result_unwrap_err(res))

call_Result_into_err ==
    ResultApply("Result.into_err", PyNone, Result_into_err(res))

call_Result_and_ ==
    \E o \in ResultArgs :
        ResultApply("Result.and_", o, Result_and_(res, o))

call_Result_and_then ==
    \E f \in ResultFns :
        ResultApply("Result.and_then", f, Result_and_then(res, f))

call_Result_or_ ==
    \E o \in ResultArgs :
        ResultApply("Result.or_", o, Result_or_(res, o))

call_Result_or_else ==
    \E f \in ResultFns :
        ResultApply("Result.or_else", f, Result_or_else(res, f))

call_Result_copy ==
    ResultApply("Result.copy", PyNone, Result_copy(res))

call_Result_clone ==
    ResultApply("Result.clone", PyNone, Result_clone(res))

call_Result_transpose ==
    ResultApply("Result.transpose", PyNone, Result_transpose(res))

call_Result_flatten ==
    ResultApply("Result.flatten", PyNone, Result_flatten(res))

call_Result___str__ ==
    ResultApply("Result.__str__", PyNone, Result___str__(res))

call_Result___repr__ ==
    \E id \in Ids :
        ResultApply("Result.__repr__", PyNone, Result___repr__(res, id))

call_Result___hash__ ==
    ResultApply("Result.__hash__", PyNone, Result___hash__(res))

call_Result___iter__ ==
    ResultApply("Result.__iter__", PyNone, iterate(res, "start", <<>>))

call_Result_value ==
    ResultApply("Result.value", PyNone, Result_value(res))

call_Result_error ==
    ResultApply("Result.error", PyNone, Result_error(res))

\* opt.ok_or(e).ok(): ok() on the Result the last ok_or() returned; old and
\* arg keep opt and e.
call_ok_or_ok ==
    /\ op = "Option.ok_or"
    /\ LET r == Result_ok(ret)
       IN  /\ ret' = r.ret
           /\ exc' = r.exc
           /\ calls' = r.calls
    /\ op' = "Option.ok_or.ok"
    /\ UNCHANGED <<opt, res, prev, arg, old, after, msg, ALL_SET, seeded, capvars>>

\* opt.ok_or(e).err()
call_ok_or_err ==
    /\ op = "Option.ok_or"
    /\ LET r == Result_err(ret)
       IN  /\ ret' = r.ret
           /\ exc' = r.exc
           /\ calls' = r.calls
    /\ op' = "Option.ok_or.err"
    /\ UNCHANGED <<opt, res, prev, arg, old, after, msg, ALL_SET, seeded, capvars>>

call_resultify ==
    \E func \in FnOutcomes : AdapterApply("resultify", func, resultify(func))

call_optionalify ==
    \E func \in FnOutcomes, catch_exceptions \in BOOLEAN :
        AdapterApply("optionalify", <<func, catch_exceptions>>,
                     optionalify(func, catch_exceptions))

NextAPI ==
    \/ call_Option_is_some
    \/ call_Option_is_some_and
    \/ call_Option_is_none
    \/ call_Option_is_none_or
    \/ call_Option_expect
    \/ call_Option_unwrap
    \/ call_Option_unwrap_or
    \/ call_Option_unwrap_or_else
    \/ call_Option_map
    \/ call_Option_map_or
    \/ call_Option_map_or_else
    \/ call_Option_inspect
    \/ call_Option_ok_or
    \/ call_Option_ok_or_else
    \/ call_Option_and_
    \/ call_Option_and_then
    \/ call_Option_filter
    \/ call_Option_or_
    \/ call_Option_or_else
    \/ call_Option_xor
    \/ call_Option_insert
    \/ call_Option_get_or_insert
    \/ call_Option_get_or_insert_with
    \/ call_Option_take
    \/ call_Option_take_if
    \/ call_Option_replace
    \/ call_Option_zip
    \/ call_Option_zip_with
    \/ call_Option_unzip
    \/ call_Option_copy
    \/ call_Option_clone
    \/ call_Option_transpose
    \/ call_Option_flatten
    \/ call_Option___iter__
    \/ call_Option___str__
    \/ call_Option___repr__
    \/ call_Option___hash__
    \/ call_Result_is_ok
    \/ call_Result_is_ok_and
    \/ call_Result_is_err
    \/ call_Result_is_err_and
    \/ call_Result_ok
    \/ call_Result_err
    \/ call_Result_map
    \/ call_Result_map_or
    \/ call_Result_map_or_else
    \/ call_Result_map_err
    \/ call_Result_inspect
    \/ call_Result_inspect_err
    \/ call_Result_expect
    \/ call_Result_unwrap
    \/ call_Result_unwrap_or
    \/ call_Result_unwrap_or_default
    \/ call_Result_unwrap_or_else
    \/ call_Result_into_ok
    \/ call_Result_expect_err
    \/ call_Result_unwrap_err
    \/ call_Result_into_err
    \/ call_Result_and_
    \/ call_Result_and_then
    \/ call_Result_or_
    \/ call_Result_or_else
    \/ call_Result_copy
    \/ call_Result_clone
    \/ call_Result_transpose
    \/ call_Result_flatten
    \/ call_Result___str__
    \/ call_Result___repr__
    \/ call_Result___hash__
    \/ call_Result___iter__
    \/ call_Result_value
    \/ call_Result_error
    \/ call_ok_or_ok
    \/ call_ok_or_err
    \/ call_resultify
    \/ call_optionalify

SpecAPI == InitAPI /\ [][NextAPI]_vars

---------------------------------------------------------------------------
\* random.py: set_seed

PySet(S) == [cls |-> "set", elems |-> S]

\* bool(x) for None and for sets, as `include if include else ...` and
\* `if exclude:` test it
Truthy(x) == x.cls = "set" /\ x.elems # {}

Libraries == {"random", "torch", "numpy"}

\* include / exclude arguments: None or a set of library names
SeedSets == {PyNone} \cup {PySet(S) : S \in SUBSET Libraries}

\* set_seed(seed, include, exclude) called while the module-level set is
\* all_set.  final_set is the include object when that is a non-empty set and
\* the module-level set object otherwise; `final_set -= exclude` updates that
\* object in place.
set_seed(all_set, include, exclude) ==
    LET uses_include == Truthy(include)
        final_set0 == IF uses_include THEN include.elems ELSE all_set
        final_set == IF Truthy(exclude) THEN final_set0 \ exclude.elems ELSE final_set0
    IN  [ALL_SET |-> IF uses_include THEN all_set ELSE final_set,
         include |-> IF uses_include THEN PySet(final_set) ELSE include,
         seeded  |-> final_set \cap Libraries]

InitSeed ==
    /\ opt = Option_create_none
    /\ res = Result_create_ok(PyInt(1))
    /\ op = "init"
    /\ prev = "init"
    /\ arg = PyNone
    /\ old = PyNone
    /\ ret = PyNone
    /\ exc = "none"
    /\ calls = 0
    /\ after = PyNone
    /\ msg = ""
    /\ ALL_SET = {"random", "torch", "numpy"}
    /\ seeded = {}
    /\ OutputCapturer___init__(TRUE, TRUE)

\* set_seed(seed, include, exclude); old keeps ALL_SET as it was before the
\* call and after the include object as the call leaves it.
call_set_seed ==
    \E include \in SeedSets, exclude \in SeedSets :
        LET r == set_seed(ALL_SET, include, exclude)
        IN  /\ ALL_SET' = r.ALL_SET
            /\ seeded' = r.seeded
            /\ op' = "set_seed"
            /\ arg' = <<include, exclude>>
            /\ old' = PySet(ALL_SET)
            /\ after' = r.include
            /\ ret' = PyNone
            /\ exc' = "none"
            /\ UNCHANGED <<opt, res, prev, calls, msg, capvars>>

NextSeed == call_set_seed

SpecSeed == InitSeed /\ [][NextSeed]_vars

---------------------------------------------------------------------------
\* Strings as sequences of characters (or of separator-free tokens), with the
\* str methods the utilities use

\* index of the first / last occurrence of c in s, 0 if there is none
Find(s, c) ==
    IF \E i \in 1..Len(s) : s[i] = c
    THEN CHOOSE i \in 1..Len(s) : s[i] = c /\ \A j \in 1..(i - 1) : s[j] # c
    ELSE 0

RFind(s, c) ==
    IF \E i \in 1..Len(s) : s[i] = c
    THEN CHOOSE i \in 1..Len(s) : s[i] = c /\ \A j \in (i + 1)..Len(s) : s[j] # c
    ELSE 0

RECURSIVE str_split(_, _)
\* s.split(sep): the pieces between the occurrences of sep
str_split(s, sep) ==
    LET i == Find(s, sep)
    IN  IF i = 0
        THEN <<s>>
        ELSE <<SubSeq(s, 1, i - 1)>> \o str_split(SubSeq(s, i + 1, Len(s)), sep)

RECURSIVE str_join(_, _)
\* sep.join(pieces)
str_join(sep, pieces) ==
    IF pieces = <<>>
    THEN <<>>
    ELSE IF Len(pieces) = 1
         THEN pieces[1]
         ELSE pieces[1] \o <<sep>> \o str_join(sep, Tail(pieces))

\* os.path.basename(p) on a POSIX system: what follows the last "/"
os_path_basename(p) == SubSeq(p, RFind(p, "/") + 1, Len(p))

---------------------------------------------------------------------------
\* file.py: pure_file_name

pure_file_name(filename, keep_extension) ==
    LET filename1 == os_path_basename(filename)
    IN  IF ~keep_extension
        THEN LET pieces == str_split(filename1, ".")
             IN  str_join(".", SubSeq(pieces, 1, Len(pieces) - 1))
        ELSE filename1

---------------------------------------------------------------------------
\* iterator.py: Iterator.join

\* bool(v) of a list element
PyTruthy(v) ==
    CASE v.cls = "NoneType" -> FALSE
      [] v.cls = "int"      -> v.n # 0
      [] OTHER              -> TRUE

\* next(it, None) on the iterator holding the elements it
next_or_none(it) ==
    IF it = <<>>
    THEN [item |-> PyNone, it |-> <<>>]
    ELSE [item |-> Head(it), it |-> Tail(it)]

JoinOps == {"add", "mul"}

\* join_op(a, b) for operator.add / operator.mul on ints
join_call(join_op, a, b) ==
    IF join_op = "add" THEN PyInt(a.n + b.n) ELSE PyInt(a.n * b.n)

RECURSIVE join_while(_, _, _)
\* while item := next(self.iter_handler, None): res = join_op(res, item)
join_while(r, it, join_op) ==
    LET n == next_or_none(it)
    IN  IF PyTruthy(n.item)
        THEN join_while(join_call(join_op, r, n.item), n.it, join_op)
        ELSE [ret |-> r, it |-> n.it]

\* Iterator(xs).join(join_op): the value returned and what is left in
\* iter_handler
Iterator_join(xs, join_op) ==
    LET n == next_or_none(xs)
    IN  IF n.item # PyNone
        THEN join_while(n.item, n.it, join_op)
        ELSE [ret |-> n.item, it |-> n.it]

---------------------------------------------------------------------------
\* json.py: check_json_file_type, iter_json_file

\* A record of a JSON file
PyDict(k) == [cls |-> "dict", id |-> k]

\* The lines of a file.  A "doc" line holds one complete JSON value; an
\* "elem" line holds a value followed by a comma, as inside a
\* pretty-printed array; "open" and "close" are the lines "[" and "]";
\* "bad" is a malformed line.
DocLine(v) == [kind |-> "doc", value |-> v]

ElemLine(v) == [kind |-> "elem", value |-> v]

OpenLine == [kind |-> "open", value |-> PyNone]

CloseLine == [kind |-> "close", value |-> PyNone]

BadLine == [kind |-> "bad", value |-> PyNone]

\* pyjson5.loads(line): the value, or a decoder error
pyjson5_loads(line) ==
    IF line.kind = "doc"
    THEN [ok |-> TRUE, value |-> line.value]
    ELSE [ok |-> FALSE, value |-> PyNone]

\* pyjson5.load(f): the whole file is one JSON5 document, either a single
\* doc line or "[", element lines (the last one with or without its comma),
\* "]"
pyjson5_load(lines) ==
    IF Len(lines) = 1 /\ lines[1].kind = "doc"
    THEN [ok |-> TRUE, value |-> lines[1].value]
    ELSE IF /\ Len(lines) >= 2
            /\ lines[1].kind = "open"
            /\ lines[Len(lines)].kind = "close"
            /\ \A i \in 2..(Len(lines) - 1) :
                   \/ lines[i].kind = "elem"
                   \/ (lines[i].kind = "doc" /\ i = Len(lines) - 1)
         THEN [ok |-> TRUE,
               value |-> PyList([i \in 1..(Len(lines) - 2) |-> lines[i + 1].value])]
         ELSE [ok |-> FALSE, value |-> PyNone]

\* json.py: class JsonType
JsonType(value) == [cls |-> "JsonType", value |-> value]

check_json_file_type(filename) ==
    LET pieces == str_split(filename, ".")
        ext == pieces[Len(pieces)]
    IN  IF ext \notin {<<"json">>, <<"jsonl">>}
        THEN [exc |-> "ValueError", ret |-> PyNone]
        ELSE [exc |-> "none", ret |-> JsonType(ext)]

\* `ext == "json"` with ext a JsonType member: JsonType derives from
\* enum.Enum only, so a member never equals a str
enum_eq_str(member, s) == FALSE

RECURSIVE iter_jsonl(_, _, _)
\* _iter_jsonl(f, ignore_exception) from the current position of f, after
\* the items in acc: the items yielded and the exception that ends the
\* generator, if any
iter_jsonl(lines, ignore_exception, acc) ==
    IF lines = <<>>
    THEN [items |-> acc, exc |-> "none"]
    ELSE LET item == pyjson5_loads(Head(lines))
         IN  IF ~item.ok
             THEN IF ignore_exception
                  THEN iter_jsonl(Tail(lines), ignore_exception, acc)
                  ELSE [items |-> acc, exc |-> "Json5DecoderException"]
             ELSE iter_jsonl(Tail(lines), ignore_exception, Append(acc, item.value))

\* list(iter_json_file(filename, ignore_exception)) for a file with the
\* given lines
iter_json_file(filename, lines, ignore_exception) ==
    LET ext == check_json_file_type(filename)
    IN  IF ext.exc # "none"
        THEN [items |-> <<>>, exc |-> ext.exc]
        ELSE IF enum_eq_str(ext.ret, <<"json">>)
             THEN LET content == pyjson5_load(lines)
                  IN  IF ~content.ok
                      THEN iter_jsonl(lines, ignore_exception, <<>>)
                      ELSE IF isinstance(content.value, "list")
                           THEN [items |-> content.value.items, exc |-> "none"]
                           ELSE IF ~ignore_exception
                                THEN [items |-> <<>>, exc |-> "ValueError"]
                                ELSE [items |-> <<>>, exc |-> "none"]
             ELSE iter_jsonl(lines, ignore_exception, <<>>)

---------------------------------------------------------------------------
\* The utilities as a state machine: each call leaves its arguments in arg,
\* its result in ret and its exception in exc.

\* longest list handed to Iterator.join
MaxLen == 3

\* most lines in a file
MaxLines == 3

\* longest file name handed to pure_file_name, in characters
MaxNameLen == 7

SeqsUpTo(S, n) == UNION {[1..k -> S] : k \in 0..n}

JoinItems == {PyNone} \cup {PyInt(n) : n \in 0..MaxVal}

NameChars == {"a", "b", ".", "/"}

JsonFileNames ==
    {<<"d", "/", "a", ".", "json">>, <<"a", ".", "jsonl">>, <<"a", ".", "json", ".", "txt">>}

FileLines ==
    {DocLine(PyDict(1)), DocLine(PyList(<<PyDict(1), PyDict(2)>>)),
     ElemLine(PyDict(1)), OpenLine, CloseLine, BadLine}

\* the inputs of one call: the function and its arguments
UtilInput(fn, args) == [fn |-> fn, args |-> args]

InitUtil ==
    /\ opt = Option_create_none
    /\ res = Result_create_ok(PyInt(1))
    /\ op = "init"
    /\ prev = "init"
    /\ old = PyNone
    /\ ret = PyNone
    /\ after = PyNone
    /\ exc = "none"
    /\ calls = 0
    /\ msg = ""
    /\ ALL_SET = {"random", "torch", "numpy"}
    /\ seeded = {}
    /\ OutputCapturer___init__(TRUE, TRUE)
    /\ \/ \E xs \in SeqsUpTo(JoinItems, MaxLen), join_op \in JoinOps :
              arg = UtilInput("Iterator.join", <<xs, join_op>>)
       \/ \E filename \in JsonFileNames, lines \in SeqsUpTo(FileLines, MaxLines),
             ignore_exception \in BOOLEAN :
              arg = UtilInput("iter_json_file", <<filename, lines, ignore_exception>>)
       \/ \E filename \in SeqsUpTo(NameChars, MaxNameLen), keep_extension \in BOOLEAN :
              arg = UtilInput("pure_file_name", <<filename, keep_extension>>)

UtilCall(name, r, e, a1) ==
    /\ op = "init"
    /\ arg.fn = name
    /\ op' = name
    /\ ret' = r
    /\ exc' = e
    /\ after' = a1
    /\ UNCHANGED <<opt, res, prev, arg, old, calls, msg, ALL_SET, seeded, capvars>>

\* Iterator(xs).join(join_op); after is what iter_handler still holds
call_join ==
    LET xs == arg.args[1]
        join_op == arg.args[2]
        r == Iterator_join(xs, join_op)
    IN  UtilCall("Iterator.join", r.ret, "none", r.it)

\* list(iter_json_file(filename, ignore_exception)) on a file with the lines
\* arg.args[2]
call_iter_json_file ==
    LET r == iter_json_file(arg.args[1], arg.args[2], arg.args[3])
    IN  UtilCall("iter_json_file", PyList(r.items), r.exc, arg.args[2])

call_pure_file_name ==
    UtilCall("pure_file_name", pure_file_name(arg.args[1], arg.args[2]), "none", PyNone)

NextUtil ==
    \/ call_join
    \/ call_iter_json_file
    \/ call_pure_file_name

SpecUtil == InitUtil /\ [][NextUtil]_vars

---------------------------------------------------------------------------
\* io.py: OutputCapturer.  One thread enters the capturer, writes to the
\* captured descriptors and leaves it; __enter__ starts one _fd_reader thread
\* per captured stream.  Every step below is one access to something the
\* threads share: stop_threads, a pipe, a descriptor, a thread's completion.

\* most bytes written to one stream inside the with block
MaxWritten == 3

\* the size of one os.read, 4096 in the code, scaled to the other bounds
ReadSize == 2

\* What the program writes in one os.write: the UTF-8 encoding of one
\* character, "a" (one byte) or e-acute (the two bytes C3 A9).
Writes == {<<"a">>, <<"0xC3", "0xA9">>}

RECURSIVE bytes_decode(_)
\* bs.decode(errors="replace"): a byte that is not part of a complete
\* sequence becomes U+FFFD
bytes_decode(bs) ==
    IF bs = <<>>
    THEN <<>>
    ELSE IF Head(bs) = "a"
         THEN <<"a">> \o bytes_decode(Tail(bs))
         ELSE IF Head(bs) = "0xC3" /\ Len(bs) >= 2 /\ bs[2] = "0xA9"
              THEN <<"e-acute">> \o bytes_decode(SubSeq(bs, 3, Len(bs)))
              ELSE <<"U+FFFD">> \o bytes_decode(Tail(bs))

apivars == <<opt, res, op, prev, arg, old, ret, exc, calls, after, msg, ALL_SET, seeded>>

InitCapture ==
    /\ opt = Option_create_none
    /\ res = Result_create_ok(PyInt(1))
    /\ op = "init"
    /\ prev = "init"
    /\ arg = PyNone
    /\ old = PyNone
    /\ ret = PyNone
    /\ after = PyNone
    /\ exc = "none"
    /\ calls = 0
    /\ msg = ""
    /\ ALL_SET = {"random", "torch", "numpy"}
    /\ seeded = {}
    /\ \E catch_stdout \in BOOLEAN, catch_stderr \in BOOLEAN :
           OutputCapturer___init__(catch_stdout, catch_stderr)

\* __enter__: a pipe per captured stream, its write end duplicated onto the
\* stream's descriptor, and a started reader thread
OutputCapturer___enter__ ==
    /\ main = "init"
    /\ main' = "body"
    /\ stop_threads' = FALSE
    /\ fds' = [s \in Streams |-> IF s \in catch THEN {"r", "w", "std"} ELSE {}]
    /\ rd' = [s \in Streams |-> IF s \in catch THEN "test" ELSE "none"]
    /\ UNCHANGED <<apivars, catch, pipe, data, fd_buf, written>>

\* the body of the with block writes bs to a captured descriptor
fd_write ==
    \E s \in catch, bs \in Writes :
        /\ main = "body"
        /\ Len(written[s]) + Len(bs) <= MaxWritten
        /\ pipe' = [pipe EXCEPT ![s] = @ \o bs]
        /\ written' = [written EXCEPT ![s] = @ \o bs]
        /\ UNCHANGED <<apivars, main, catch, stop_threads, fds, rd, data, fd_buf>>

\* __exit__, line 103: self.stop_threads = True
exit_stop_threads ==
    /\ main = "body"
    /\ main' = "close_w"
    /\ stop_threads' = TRUE
    /\ UNCHANGED <<apivars, catch, fds, pipe, rd, data, fd_buf, written>>

\* __exit__, lines 105-108: os.close of the write ends; the copies made by
\* dup2 onto the streams' descriptors stay open
exit_close_w ==
    /\ main = "close_w"
    /\ main' = "join_stdout"
    /\ fds' = [s \in Streams |-> fds[s] \ {"w"}]
    /\ UNCHANGED <<apivars, catch, stop_threads, pipe, rd, data, fd_buf, written>>

\* __exit__, lines 110-111: stdout_thread.join(timeout=0.1) returns when the
\* thread has finished or when the timeout has elapsed, whichever is first
exit_join_stdout ==
    /\ main = "join_stdout"
    /\ main' = "join_stderr"
    /\ UNCHANGED <<apivars, catch, stop_threads, fds, pipe, rd, data, fd_buf, written>>

\* __exit__, lines 112-113: stderr_thread.join(timeout=0.1)
exit_join_stderr ==
    /\ main = "join_stderr"
    /\ main' = "close_r"
    /\ UNCHANGED <<apivars, catch, stop_threads, fds, pipe, rd, data, fd_buf, written>>

\* __exit__, lines 115-118: os.close of the read ends
exit_close_r ==
    /\ main = "close_r"
    /\ main' = "restore"
    /\ fds' = [s \in Streams |-> fds[s] \ {"r"}]
    /\ UNCHANGED <<apivars, catch, stop_threads, pipe, rd, data, fd_buf, written>>

\* __exit__, lines 120-126: dup2 puts the saved descriptors back, which
\* closes the last write end of each pipe; __exit__ returns
exit_restore ==
    /\ main = "restore"
    /\ main' = "exited"
    /\ fds' = [s \in Streams |-> fds[s] \ {"std"}]
    /\ UNCHANGED <<apivars, catch, stop_threads, pipe, rd, data, fd_buf, written>>

\* _fd_reader, line 53: while not self.stop_threads
fd_reader_test ==
    \E s \in Streams :
        /\ rd[s] = "test"
        /\ rd' = [rd EXCEPT ![s] = IF stop_threads THEN "done" ELSE "read"]
        /\ UNCHANGED <<apivars, main, catch, stop_threads, fds, pipe, data, fd_buf, written>>

\* _fd_reader, lines 55-57 and 59: os.read(fd, 4096) returns the bytes in
\* the pipe, at most ReadSize of them; it blocks while the pipe is empty and
\* a write end is open; it returns b"" (and the loop breaks) once the pipe
\* is empty and no write end is open, also for a read that was blocked when
\* the read end was closed; it raises OSError when called on the closed
\* read end.
fd_reader_read ==
    \E s \in Streams :
        /\ rd[s] = "read"
        /\ \/ /\ "r" \in fds[s]
              /\ pipe[s] # <<>>
              /\ LET n == IF Len(pipe[s]) < ReadSize THEN Len(pipe[s]) ELSE ReadSize
                 IN  /\ data' = [data EXCEPT ![s] = SubSeq(pipe[s], 1, n)]
                     /\ pipe' = [pipe EXCEPT ![s] = SubSeq(pipe[s], n + 1, Len(pipe[s]))]
              /\ rd' = [rd EXCEPT ![s] = "write"]
           \/ /\ pipe[s] = <<>>
              /\ fds[s] \cap {"w", "std"} = {}
              /\ data' = [data EXCEPT ![s] = <<>>]
              /\ rd' = [rd EXCEPT ![s] = "done"]
              /\ UNCHANGED pipe
           \/ /\ "r" \notin fds[s]
              /\ rd' = [rd EXCEPT ![s] = "sleep"]
              /\ UNCHANGED <<pipe, data>>
        /\ UNCHANGED <<apivars, main, catch, stop_threads, fds, fd_buf, written>>

\* _fd_reader, line 58: buffer.write(data.decode(errors="replace"))
fd_reader_write ==
    \E s \in Streams :
        /\ rd[s] = "write"
        /\ fd_buf' = [fd_buf EXCEPT ![s] = @ \o bytes_decode(data[s])]
        /\ rd' = [rd EXCEPT ![s] = "test"]
        /\ UNCHANGED <<apivars, main, catch, stop_threads, fds, pipe, data, written>>

\* _fd_reader, lines 59-60: time.sleep(0.1) after the OSError
fd_reader_sleep ==
    \E s \in Streams :
        /\ rd[s] = "sleep"
        /\ rd' = [rd EXCEPT ![s] = "test"]
        /\ UNCHANGED <<apivars, main, catch, stop_threads, fds, pipe, data, fd_buf, written>>

\* get_stdout() / get_stderr()
get_output(s) == fd_buf[s]

NextCapture ==
    \/ OutputCapturer___enter__
    \/ fd_write
    \/ exit_stop_threads
    \/ exit_close_w
    \/ exit_join_stdout
    \/ exit_join_stderr
    \/ exit_close_r
    \/ exit_restore
    \/ fd_reader_test
    \/ fd_reader_read
    \/ fd_reader_write
    \/ fd_reader_sleep

SpecCapture == InitCapture /\ [][NextCapture]_vars

---------------------------------------------------------------------------
\* Properties

IsSome(o) == isinstance(o.optb, "_Some")

IsOk(r) == isinstance(r.res, "_Ok")

\* The object the last call returned, with `self` resolved to the receiver.
Returned ==
    IF ret = SelfRef
    THEN (IF old.cls = "Option" THEN opt ELSE res)
    ELSE ret

\* C1: take() on Some(v) returns Some(v) and leaves the container None; on
\* None it returns None and leaves the container unchanged; a take() issued
\* right after a take() returns None.
C1_Take ==
    op = "Option.take" =>
        /\ exc = "none"
        /\ IF IsSome(old)
           THEN ret = Option_create_some(old.optb.value) /\ opt = Option_create_none
           ELSE ret = Option_create_none /\ opt = old
        /\ (prev = "Option.take" => ret = Option_create_none)

C1_Witness ==
    /\ op = "Option.take"
    /\ prev = "Option.take"
    /\ ret = Option_create_none
    /\ opt = Option_create_none

C1_WitnessSome ==
    op = "Option.take" /\ IsSome(old) /\ ret = old /\ opt = Option_create_none

\* C2: replace(v2) leaves the container Some(v2) and returns the previous
\* contents as an Option: Some(v1) from Some(v1), None from None.
C2_Replace ==
    op = "Option.replace" =>
        /\ exc = "none"
        /\ opt = Option_create_some(arg)
        /\ ret = IF IsSome(old)
                 THEN Option_create_some(old.optb.value)
                 ELSE Option_create_none

C2_Witness ==
    /\ op = "Option.replace"
    /\ IsSome(old)
    /\ old.optb.value # arg
    /\ ret = old
    /\ opt = Option_create_some(arg)

\* C3 (as stated): insert(value) leaves the container Some(value) and returns
\* the installed value itself, the payload.
C3_InsertReturnsPayload ==
    op = "Option.insert" =>
        /\ opt = Option_create_some(arg)
        /\ ret = arg

\* C3 (amended): insert(value) leaves the container Some(value), from Some
\* and from None, and returns the receiver container itself.
C3_Insert ==
    op = "Option.insert" =>
        /\ exc = "none"
        /\ opt = Option_create_some(arg)
        /\ ret = SelfRef
        /\ Returned = Option_create_some(arg)

C3_Witness ==
    /\ op = "Option.insert"
    /\ IsSome(old)
    /\ old.optb.value # arg
    /\ opt = Option_create_some(arg)
    /\ ret = SelfRef

\* C4: get_or_insert(value) / get_or_insert_with(thunk) on None install
\* value / thunk() and return it; on Some(w) they return w, leave the
\* container Some(w) and do not invoke thunk.  The container ends Some.
C4_GetOrInsert ==
    op \in {"Option.get_or_insert", "Option.get_or_insert_with"} =>
        LET installed == IF op = "Option.get_or_insert" THEN arg ELSE Call0(arg)
        IN  /\ exc = "none"
            /\ IsSome(opt)
            /\ IF IsSome(old)
               THEN opt = old /\ ret = old.optb.value /\ calls = 0
               ELSE /\ opt = Option_create_some(installed)
                    /\ ret = installed
                    /\ (op = "Option.get_or_insert_with" => calls = 1)

C4_Witness ==
    /\ op = "Option.get_or_insert_with"
    /\ IsSome(old)
    /\ old.optb.value # Call0(arg)
    /\ opt = old
    /\ calls = 0

C4_WitnessNone ==
    /\ op = "Option.get_or_insert"
    /\ ~IsSome(old)
    /\ opt = Option_create_some(arg)
    /\ ret = arg

\* C5: take_if(predicate) on Some(v) with predicate(v) true returns Some(v)
\* and resets the container to None; otherwise it returns None and leaves
\* the container as it was; on None the predicate is not called.
C5_TakeIf ==
    op = "Option.take_if" =>
        /\ exc = "none"
        /\ IF IsSome(old) /\ Call(arg, old.optb.value)
           THEN ret = Option_create_some(old.optb.value) /\ opt = Option_create_none
           ELSE ret = Option_create_none /\ opt = old
        /\ (~IsSome(old) => calls = 0)

C5_Witness ==
    /\ op = "Option.take_if"
    /\ IsSome(old)
    /\ ~Call(arg, old.optb.value)
    /\ opt = old
    /\ ret = Option_create_none

C5_WitnessTaken ==
    /\ op = "Option.take_if"
    /\ arg = "is_one"
    /\ old = Option_create_some(PyInt(1))
    /\ ret = old
    /\ opt = Option_create_none

\* C6: Result.and_(other) returns other on Ok and the receiver itself on
\* Err; Result.or_(other) returns the receiver itself on Ok and other on
\* Err; what they return is always a Result, never a bare payload.
C6_AndOrReturnResult ==
    /\ op = "Result.and_" =>
           /\ isinstance(Returned, "Result")
           /\ Returned = IF IsOk(old) THEN arg ELSE old
    /\ op = "Result.or_" =>
           /\ isinstance(Returned, "Result")
           /\ Returned = IF IsOk(old) THEN old ELSE arg

\* x is an Option of Result: None, Some(Ok(v)) or Some(Err(e))
IsOptionOfResult(x) ==
    /\ isinstance(x, "Option")
    /\ IsSome(x) => isinstance(x.optb.value, "Result")

\* r is a Result of Option: Ok(None), Ok(Some(v)) or Err(e)
IsResultOfOption(r) ==
    /\ isinstance(r, "Result")
    /\ IsOk(r) => isinstance(r.res.value, "Option")

\* C7: transpose is self-inverse: x.transpose().transpose() equals x for
\* every Option of Result x and for every Result of Option x.
C7_TransposeSelfInverse ==
    /\ (op = "Option.transpose.transpose" /\ IsOptionOfResult(old)) =>
           exc = "none" /\ ret = old
    /\ (op = "Result.transpose.transpose" /\ IsResultOfOption(old)) =>
           exc = "none" /\ ret = old

\* C8: Option.transpose() threads failure outward: Some(Err(e)) gives
\* Err(e), Some(Ok(v)) gives Ok(Some(v)), and the Result returned is an Err
\* only when the receiver holds an Err.
C8_OptionTransposeThreadsFailure ==
    (op = "Option.transpose" /\ IsOptionOfResult(old)) =>
        LET HoldsErr == IsSome(old) /\ ~IsOk(old.optb.value)
            HoldsOk  == IsSome(old) /\ IsOk(old.optb.value)
        IN  /\ exc = "none"
            /\ HoldsErr => ret = Result_create_err(old.optb.value.res.error)
            /\ HoldsOk =>
                   ret = Result_create_ok(Option_create_some(old.optb.value.res.value))
            /\ isinstance(ret.res, "_Err") => HoldsErr

\* C9: iterating an Option / a Result yields exactly the contained value
\* when it is Some / Ok, and ends with no element and no error when it is
\* None / Err.
C9_Iteration ==
    /\ op = "Option.__iter__" =>
           /\ exc = "none"
           /\ ret = PyList(IF IsSome(old) THEN <<old.optb.value>> ELSE <<>>)
    /\ op = "Result.__iter__" =>
           /\ exc = "none"
           /\ ret = PyList(IF IsOk(old) THEN <<old.res.value>> ELSE <<>>)

\* C10: the callable is invoked zero times when the receiver's variant
\* decides the outcome (Option.map / Option.and_then on None,
\* Option.or_else on Some, Result.and_then on Err, Result.or_else on Ok) and
\* exactly once in the opposite variant.
C10_ShortCircuit ==
    /\ op \in {"Option.map", "Option.and_then"} =>
           calls = IF IsSome(old) THEN 1 ELSE 0
    /\ op = "Option.or_else" => calls = IF IsSome(old) THEN 0 ELSE 1
    /\ op = "Result.and_then" => calls = IF IsOk(old) THEN 1 ELSE 0
    /\ op = "Result.or_else" => calls = IF IsOk(old) THEN 0 ELSE 1

C10_Witness ==
    /\ op = "Option.or_else"
    /\ IsSome(old)
    /\ calls = 0
    /\ Returned = old

\* C11: for all v and e, Some(v).ok_or(e).ok() is Some(v) and
\* Some(v).ok_or(e).err() is None; None.ok_or(e).ok() is None and
\* None.ok_or(e).err() is Some(e).
C11_OkOrRoundTrip ==
    /\ op = "Option.ok_or.ok" =>
           /\ exc = "none"
           /\ ret = IF IsSome(old)
                    THEN Option_create_some(old.optb.value)
                    ELSE Option_create_none
    /\ op = "Option.ok_or.err" =>
           /\ exc = "none"
           /\ ret = IF IsSome(old)
                    THEN Option_create_none
                    ELSE Option_create_some(arg)

C11_Witness ==
    /\ op = "Option.ok_or.err"
    /\ ~IsSome(old)
    /\ arg \in Ints
    /\ ret = Option_create_some(arg)

\* C12: extraction against the wrong variant raises UnwrapError and against
\* the right variant returns the payload: Option.unwrap / expect, Result.unwrap
\* / expect (message "{msg}: {e}"), Result.unwrap_err / expect_err; the
\* container is never changed.
C12_Extraction ==
    /\ op \in {"Option.unwrap", "Option.expect"} =>
           /\ opt = old
           /\ IF IsSome(old)
              THEN exc = "none" /\ ret = old.optb.value
              ELSE exc = UnwrapError
    /\ op \in {"Result.unwrap", "Result.expect"} =>
           /\ res = old
           /\ IF IsOk(old)
              THEN exc = "none" /\ ret = old.res.value
              ELSE exc = UnwrapError
    /\ (op = "Result.expect" /\ ~IsOk(old)) =>
           msg = arg.s \o ": " \o Str(old.res.error)
    /\ op \in {"Result.unwrap_err", "Result.expect_err"} =>
           /\ res = old
           /\ IF IsOk(old)
              THEN exc = UnwrapError
              ELSE exc = "none" /\ ret = old.res.error

C12_Witness ==
    /\ op = "Result.expect"
    /\ old = Result_create_err(PyInt(1))
    /\ exc = UnwrapError
    /\ msg = "boom: 1"
    /\ res = old

\* C13: the function resultify(f) returns invokes f exactly once per call,
\* returns Ok(r) when f returns r and Err(x) when f raises an error x (an
\* exception derived from Exception), which never reaches the caller.
C13_Resultify ==
    op = "resultify" =>
        /\ calls = 1
        /\ arg.kind = "return" =>
               exc = "none" /\ ret = Result_create_ok(arg.value)
        /\ (arg.kind = "raise" /\ arg.exc \in ExceptionClasses) =>
               exc = "none" /\ ret = Result_create_err(PyExc(arg.exc))

C13_Witness ==
    /\ op = "resultify"
    /\ arg.kind = "raise"
    /\ arg.exc = "ZeroDivisionError"
    /\ exc = "none"
    /\ ret = Result_create_err(PyExc("ZeroDivisionError"))

\* C14: optionalify(f, catch_exceptions): f returning the null sentinel
\* gives None, f returning any other r gives Some(r), so that Some(null) is
\* never returned; an error raised by f gives None when catch_exceptions is
\* true and reaches the caller unmodified when it is false.
C14_Optionalify ==
    op = "optionalify" =>
        LET func == arg[1]
            catch_exceptions == arg[2]
        IN  /\ func.kind = "return" =>
                   /\ exc = "none"
                   /\ ret = IF func.value = PyNone
                            THEN Option_create_none
                            ELSE Option_create_some(func.value)
            /\ exc = "none" => ret # Option_create_some(PyNone)
            /\ (func.kind = "raise" /\ func.exc \in ExceptionClasses) =>
                   IF catch_exceptions
                   THEN exc = "none" /\ ret = Option_create_none
                   ELSE exc = func.exc

C14_Witness ==
    /\ op = "optionalify"
    /\ arg[1].kind = "return"
    /\ arg[1].value = PyNone
    /\ exc = "none"
    /\ ret = Option_create_none

OptionMutators ==
    {"Option.insert", "Option.take", "Option.take_if", "Option.replace",
     "Option.get_or_insert", "Option.get_or_insert_with"}

\* C15: every Option method other than insert, take, take_if, replace,
\* get_or_insert and get_or_insert_with, and every Result method, leaves the
\* receiver and any container passed as argument as they were, whether it
\* returns or raises.
C15_OnlyMutatorsMutate ==
    /\ (old.cls = "Option" /\ op \notin OptionMutators) => opt = old
    /\ old.cls = "Result" => res = old
    /\ op \in {"Option.and_", "Option.or_", "Option.xor", "Option.zip",
               "Result.and_", "Result.or_"} => after = arg
    /\ op = "Option.zip_with" => after = arg[1]

C15_Witness ==
    /\ op = "Option.unwrap"
    /\ exc = "none"
    /\ IsSome(old)
    /\ ret = old.optb.value
    /\ opt = old

C15_WitnessRaise ==
    /\ op = "Result.unwrap_err"
    /\ exc = UnwrapError
    /\ res = old

\* o is an Option in exactly one of its two shapes
OneShape(o) ==
    /\ isinstance(o, "Option")
    /\ (o.optb = PyNone) # isinstance(o.optb, "_Some")

\* C16 (as stated): the container is in exactly one of the two shapes and a
\* Some shape never carries the null sentinel.
C16_NoNullInSome ==
    /\ OneShape(opt)
    /\ IsSome(opt) => opt.optb.value # PyNone

\* C16 (amended): the container, and every Option a method returns, is in
\* exactly one of the two shapes: optb is None or a _Some; the payload of a
\* Some may be any value, the null sentinel included.
C16_ExactlyOneShape ==
    /\ OneShape(opt)
    /\ (exc = "none" /\ Returned.cls = "Option") => OneShape(Returned)

C16_Witness ==
    /\ op = "Option.insert"
    /\ arg = PyNone
    /\ opt = Option_create_some(PyNone)
    /\ OneShape(opt)

\* C17: a set_seed call with include=None and exclude=None seeds random,
\* torch and numpy whatever calls preceded it: no call changes ALL_SET.
C17_DefaultSeedsAll ==
    /\ ALL_SET = {"random", "torch", "numpy"}
    /\ (op = "set_seed" /\ arg[1] = PyNone /\ arg[2] = PyNone) =>
           seeded = {"random", "torch", "numpy"}

RECURSIVE fold_left(_, _, _)
\* op(...op(op(acc, xs[1]), xs[2])..., xs[n])
fold_left(join_op, acc, xs) ==
    IF xs = <<>>
    THEN acc
    ELSE fold_left(join_op, join_call(join_op, acc, Head(xs)), Tail(xs))

\* C18: Iterator.join(op) on a non-empty list of ints returns the left fold
\* of op over all its elements and leaves the iterator exhausted, and it
\* returns None only for the empty list.
C18_JoinsAll ==
    op = "Iterator.join" =>
        LET xs == arg.args[1]
            join_op == arg.args[2]
        IN  /\ (xs # <<>> /\ \A i \in 1..Len(xs) : xs[i].cls = "int") =>
                   /\ ret = fold_left(join_op, Head(xs), Tail(xs))
                   /\ after = <<>>
            /\ ret = PyNone => xs = <<>>

\* the values of the well-formed lines, in file order
DocValues(lines) ==
    LET docs == SelectSeq(lines, LAMBDA l : l.kind = "doc")
    IN  [i \in 1..Len(docs) |-> docs[i].value]

\* C19: iter_json_file yields the elements of the array, in order, for a
\* .json file holding a JSON array; for a .jsonl file it yields one record
\* per line, skipping malformed lines when ignore_exception is true and
\* raising the parse error when it is false.
C19_IterJsonFile ==
    op = "iter_json_file" =>
        LET filename == arg.args[1]
            lines == arg.args[2]
            ignore_exception == arg.args[3]
            pieces == str_split(filename, ".")
            ext == pieces[Len(pieces)]
            content == pyjson5_load(lines)
        IN  /\ (ext = <<"json">> /\ content.ok /\ isinstance(content.value, "list")) =>
                   /\ exc = "none"
                   /\ ret = content.value
            /\ (ext = <<"jsonl">> /\ ignore_exception) =>
                   /\ exc = "none"
                   /\ ret = PyList(DocValues(lines))
            /\ (ext = <<"jsonl">> /\ ~ignore_exception) =>
                   IF \A i \in 1..Len(lines) : lines[i].kind = "doc"
                   THEN exc = "none" /\ ret = PyList(DocValues(lines))
                   ELSE exc = "Json5DecoderException"

\* C20: pure_file_name(filename, keep_extension=False) is the base name of
\* filename without its last extension, and the whole base name when it
\* contains no dot.
C20_PureFileName ==
    (op = "pure_file_name" /\ ~arg.args[2]) =>
        LET base == os_path_basename(arg.args[1])
            dot == RFind(base, ".")
        IN  ret = IF dot = 0 THEN base ELSE SubSeq(base, 1, dot - 1)

\* C21: OutputCapturer loses no output: once __exit__ has returned and the
\* reader threads have finished, get_stdout() and get_stderr() hold the
\* decoding of every byte written to their descriptor inside the with
\* block, in order.
C21_NoOutputLost ==
    (main = "exited" /\ \A s \in catch : rd[s] = "done") =>
        \A s \in catch : get_output(s) = bytes_decode(written[s])

=============================================================================
